---- MODULE Spec2Model ----
(***************************************************************************)
(* APKInsightScraper: extraction of BLE UUID constants from decompiled     *)
(* Android packages (apkAnalyzer.py).                                      *)
(*                                                                         *)
(* Three specifications share this module:                                 *)
(*   MatchSpec  the per-line matcher (the loop body of match_uuids),       *)
(*   ScanSpec   the tree scan of one package (Analyzer.match_uuids),       *)
(*   Spec       the batch runner (main, extract_uuids_from_apk) over a     *)
(*              thread pool.                                               *)
(* Text is a sequence of one-character strings.                            *)
(***************************************************************************)
EXTENDS Integers, Sequences, FiniteSets, TLC

VARIABLES
    \* ---- the matcher (match_uuids, one line) ----
    line,           \* the line read from the file
    m_pc,           \* "input" | "matched"
    uuid_infos,     \* the records appended for this line
    m_exc,          \* "none" | "IndexError"
    \* ---- the tree scan (Analyzer.match_uuids) ----
    tree,           \* the files os.walk yields under sources/, in walk order
    s_idx,          \* number of files visited so far
    all_uuid_infos, \* the records collected so far
    s_pc,           \* "walk" | "returned" | "raised"
    s_exc,          \* "none" | "UnicodeDecodeError" | "IndexError"
    \* ---- the batch runner (main, extract_uuids_from_apk) ----
    entries,        \* apks_directory: entry name -> "file" | "dir" | "missing"
    jadx,           \* what jadx_path is: "missing" | "dir" | "noexec" | "exec"
    mode,           \* "json" | "persist"
    max_workers,    \* the size of the thread pool
    main_pc,        \* "list" | "pool" | "written" | "done"
    apk_files,      \* the packages main submits
    task,           \* package -> "queued" | "init" | "decompile" | "scan"
                    \*            | "persist" | "cleanup" | "done"
    err,            \* package -> the exception its task caught, or "none"
    result,         \* package -> what its future returns (a dict)
    invoked,        \* the packages the decompiler was run for
    dirs,           \* the decompiled directories that exist
    rows,           \* persistence mode: the packages whose rows are stored
    collected,      \* the futures main has taken from as_completed
    global_uuid_info,
    output_json,    \* the document written
    writes          \* how many times output_json was written

matchVars == <<line, m_pc, uuid_infos, m_exc>>
scanVars  == <<tree, s_idx, all_uuid_infos, s_pc, s_exc>>
envVars   == <<entries, jadx, mode, max_workers>>
taskVars  == <<task, err, result, invoked, dirs, rows>>
mainVars  == <<main_pc, apk_files, collected, global_uuid_info, output_json, writes>>
batchVars == <<envVars, taskVars, mainVars>>
vars == <<matchVars, scanVars, batchVars>>

(***************************************************************************)
(* Bounds                                                                  *)
(***************************************************************************)
MaxChunks == 4      \* a line is at most this many chunks of text
MaxFiles  == 2      \* files in one decompiled tree
MaxLines  == 1      \* lines in one source file
MaxEntries == 3     \* entries in apks_directory
MaxWorkers == 2     \* the largest configured pool cap

(***************************************************************************)
(* Text helpers (Python str methods, on sequences of characters)           *)
(***************************************************************************)
Hex == {"0","1","2","3","4","5","6","7","8","9",
        "a","b","c","d","e","f","A","B","C","D","E","F"}

Whitespace == {" ", "\t", "\n", "\r"}

RECURSIVE Concat(_)
Concat(ss) == IF ss = <<>> THEN <<>> ELSE Head(ss) \o Concat(Tail(ss))

\* [c] * n
RECURSIVE Repeat(_, _)
Repeat(c, n) == IF n = 0 THEN <<>> ELSE <<c>> \o Repeat(c, n - 1)

\* the index of the first element of s, from position i on, that is in set cs;
\* Len(s) + 1 when there is none
RECURSIVE FindFrom(_, _, _)
FindFrom(s, cs, i) ==
    IF i > Len(s) THEN Len(s) + 1
    ELSE IF s[i] \in cs THEN i
    ELSE FindFrom(s, cs, i + 1)

\* str.split(sep) for a one-character separator: every separator cuts, empty
\* pieces are kept, and the result always has at least one piece
RECURSIVE split_sep(_, _)
split_sep(s, sep) ==
    LET i == FindFrom(s, {sep}, 1)
    IN  IF i > Len(s) THEN <<s>>
        ELSE <<SubSeq(s, 1, i - 1)>> \o split_sep(SubSeq(s, i + 1, Len(s)), sep)

\* str.lstrip(chars) / str.rstrip(chars) / str.strip(chars)
RECURSIVE lstrip(_, _)
lstrip(s, cs) ==
    IF s # <<>> /\ Head(s) \in cs THEN lstrip(Tail(s), cs) ELSE s

RECURSIVE rstrip(_, _)
rstrip(s, cs) ==
    IF s # <<>> /\ s[Len(s)] \in cs THEN rstrip(SubSeq(s, 1, Len(s) - 1), cs) ELSE s

strip(s, cs) == rstrip(lstrip(s, cs), cs)

\* str.split() without argument: the maximal runs of non-whitespace
RECURSIVE split_ws(_)
split_ws(s) ==
    LET t == lstrip(s, Whitespace)
    IN  IF t = <<>> THEN <<>>
        ELSE LET e == FindFrom(t, Whitespace, 1)
             IN  <<SubSeq(t, 1, e - 1)>> \o split_ws(SubSeq(t, e, Len(t)))

(***************************************************************************)
(* uuid_regex                                                              *)
(***************************************************************************)
\* the lengths of the hexadecimal groups, joined by "-"
UuidGroups == <<8, 4, 4, 4, 12>>

\* the regex after the lookahead, as the sequence of character classes it
\* consumes: [0-9a-fA-F]{8}-[0-9a-fA-F]{4}-...-[0-9a-fA-F]{12}
RECURSIVE ClassesOf(_)
ClassesOf(gs) ==
    IF gs = <<>> THEN <<>>
    ELSE Repeat(Hex, Head(gs))
         \o (IF Tail(gs) = <<>> THEN <<>> ELSE <<{"-"}>> \o ClassesOf(Tail(gs)))

UuidClasses == ClassesOf(UuidGroups)

\* the literal of the negative lookahead
ZeroUuid ==
    Repeat("0", 8) \o <<"-">> \o Repeat("0", 4) \o <<"-">> \o Repeat("0", 4)
    \o <<"-">> \o Repeat("0", 4) \o <<"-">> \o Repeat("0", 12)

\* the character classes match s from position i on
ClassesAt(s, i) ==
    /\ i + Len(UuidClasses) - 1 <= Len(s)
    /\ \A k \in 1..Len(UuidClasses) : s[i + k - 1] \in UuidClasses[k]

\* (?!00000000-0000-0000-0000-000000000000) at position i
LookaheadAt(s, i) ==
    ~ (/\ i + Len(ZeroUuid) - 1 <= Len(s)
       /\ SubSeq(s, i, i + Len(ZeroUuid) - 1) = ZeroUuid)

\* a variant of the regex without the negative lookahead
RegexAtNoLookahead(s, i) == ClassesAt(s, i)

\* uuid_regex matches s at position i
RegexAt(s, i) == LookaheadAt(s, i) /\ ClassesAt(s, i)

\* re.search(uuid_regex, s): the start of the leftmost match, 0 for None
RECURSIVE SearchFrom(_, _)
SearchFrom(s, i) ==
    IF i + Len(UuidClasses) - 1 > Len(s) THEN 0
    ELSE IF RegexAt(s, i) THEN i
    ELSE SearchFrom(s, i + 1)

re_search(s) == SearchFrom(s, 1)

\* match.group()
group(s, m) == SubSeq(s, m, m + Len(UuidClasses) - 1)

(***************************************************************************)
(* match_uuids: the body of the loop over the lines of one file            *)
(***************************************************************************)
UUIDInfo(u, v, p) == [uuid |-> u, variable |-> v, path |-> p]

\* a variant of the token choice that takes the first token
FirstOf(tokens) == tokens[1]

\* variable_part.split()[-1]
LastOf(tokens) == tokens[Len(tokens)]

\* the outcome of one iteration: the records appended and the exception
\* raised ("none" when the iteration ends normally)
LineResult(infos, exc) == [infos |-> infos, exc |-> exc]

MatchLine(l, path) ==
    LET match == re_search(l)
    IN  IF match = 0 THEN LineResult(<<>>, "none")
        ELSE LET parts == split_sep(l, "=")
             IN  IF Len(parts) <= 1 THEN LineResult(<<>>, "none")
                 ELSE LET variable_part == strip(parts[1], Whitespace)
                          tokens == split_ws(variable_part)
                      IN  IF tokens = <<>>
                          THEN LineResult(<<>>, "IndexError")
                          ELSE LineResult(
                                  <<UUIDInfo(strip(group(l, match), {"\""}),
                                             LastOf(tokens), path)>>,
                                  "none")

(***************************************************************************)
(* MatchSpec: the matcher applied to every bounded line                    *)
(***************************************************************************)
Uuid1 == <<"0","0","0","0","1","8","0","d","-","0","0","0","0","-",
           "1","0","0","0","-","8","0","0","0","-",
           "0","0","8","0","5","f","9","b","3","4","f","b">>
Uuid2 == <<"0","0","0","0","2","A","3","7","-","0","0","0","0","-",
           "1","0","0","0","-","8","0","0","0","-",
           "0","0","8","0","5","F","9","B","3","4","F","B">>

\* the pieces of text lines are made of
Chunks == { <<"t", " ">>, <<"x">>, <<" ">>, <<"=">>, <<"\"">>,
            Uuid1, Uuid2, ZeroUuid }

Lines == { Concat(cs) : cs \in UNION { [1..n -> Chunks] : n \in 0..MaxChunks } }

MatchIdle ==
    /\ line = <<>>
    /\ m_pc = "idle"
    /\ uuid_infos = <<>>
    /\ m_exc = "none"

ScanIdle ==
    /\ tree = <<>>
    /\ s_idx = 0
    /\ all_uuid_infos = <<>>
    /\ s_pc = "idle"
    /\ s_exc = "none"

BatchIdle ==
    /\ entries = <<>>
    /\ jadx = "exec"
    /\ mode = "json"
    /\ max_workers = 1
    /\ main_pc = "idle"
    /\ apk_files = {}
    /\ task = <<>>
    /\ err = <<>>
    /\ result = <<>>
    /\ invoked = {}
    /\ dirs = {}
    /\ rows = {}
    /\ collected = {}
    /\ global_uuid_info = <<>>
    /\ output_json = <<>>
    /\ writes = 0

MatchInit ==
    /\ line \in Lines
    /\ m_pc = "input"
    /\ uuid_infos = <<>>
    /\ m_exc = "none"
    /\ ScanIdle
    /\ BatchIdle

\* one iteration of `for line in file`
ApplyMatch ==
    /\ m_pc = "input"
    /\ LET r == MatchLine(line, <<"f">>)
       IN  /\ uuid_infos' = uuid_infos \o r.infos
           /\ m_exc' = r.exc
    /\ m_pc' = "matched"
    /\ UNCHANGED <<line, scanVars, batchVars>>

MatchNext == ApplyMatch

MatchSpec == MatchInit /\ [][MatchNext]_vars

(***************************************************************************)
(* match_uuids on a whole file, and Analyzer.match_uuids on a tree         *)
(***************************************************************************)
RECURSIVE EndsWith(_, _)
EndsWith(s, suffix) ==
    /\ Len(suffix) <= Len(s)
    /\ SubSeq(s, Len(s) - Len(suffix) + 1, Len(s)) = suffix

DotJava == <<".", "j", "a", "v", "a">>

\* the loop `for line in file`: the records of the lines in order; the first
\* exception ends the call and its records are lost with it
RECURSIVE MatchLines(_, _, _)
MatchLines(ls, path, acc) ==
    IF ls = <<>> THEN LineResult(acc, "none")
    ELSE LET r == MatchLine(Head(ls), path)
         IN  IF r.exc # "none" THEN LineResult(<<>>, r.exc)
             ELSE MatchLines(Tail(ls), path, acc \o r.infos)

\* match_uuids(file_path, relative_path): a file that cannot be opened or
\* decoded as UTF-8 raises out of the `with open(...)` block
match_uuids(f) ==
    IF ~f.readable THEN LineResult(<<>>, "UnicodeDecodeError")
    ELSE MatchLines(f.lines, f.path, <<>>)

(***************************************************************************)
(* ScanSpec: the scan of one decompiled tree                               *)
(***************************************************************************)
ScanPaths == { <<"p", "/", "A">> \o DotJava,
               <<"B">> \o DotJava,
               <<"r", ".", "t", "x", "t">> }

ScanLines == { Concat(<<(<<"x">>), (<<"=">>), Uuid1>>),
               Concat(<<(<<"=">>), Uuid2>>),
               Concat(<<(<<"x">>), (<<"=">>), ZeroUuid>>),
               <<"x">> }

FileContents == UNION { [1..n -> ScanLines] : n \in 0..MaxLines }

SourceFiles == [path : ScanPaths, readable : BOOLEAN, lines : FileContents]

Trees ==
    { t \in UNION { [1..n -> SourceFiles] : n \in 0..MaxFiles } :
        \A i, j \in 1..Len(t) : i # j => t[i].path # t[j].path }

ScanInit ==
    /\ tree \in Trees
    /\ s_idx = 0
    /\ all_uuid_infos = <<>>
    /\ s_pc = "walk"
    /\ s_exc = "none"
    /\ MatchIdle
    /\ BatchIdle

\* `if not file.endswith(".java"): continue`
SkipFile ==
    /\ s_pc = "walk"
    /\ s_idx < Len(tree)
    /\ ~EndsWith(tree[s_idx + 1].path, DotJava)
    /\ s_idx' = s_idx + 1
    /\ UNCHANGED <<tree, all_uuid_infos, s_pc, s_exc, matchVars, batchVars>>

\* all_uuid_infos.extend(match_uuids(...)), the call returning
ScanFile ==
    /\ s_pc = "walk"
    /\ s_idx < Len(tree)
    /\ EndsWith(tree[s_idx + 1].path, DotJava)
    /\ LET r == match_uuids(tree[s_idx + 1])
       IN  /\ r.exc = "none"
           /\ all_uuid_infos' = all_uuid_infos \o r.infos
    /\ s_idx' = s_idx + 1
    /\ UNCHANGED <<tree, s_pc, s_exc, matchVars, batchVars>>

\* match_uuids raising: nothing in Analyzer.match_uuids catches it
ScanFileRaise ==
    /\ s_pc = "walk"
    /\ s_idx < Len(tree)
    /\ EndsWith(tree[s_idx + 1].path, DotJava)
    /\ LET r == match_uuids(tree[s_idx + 1])
       IN  /\ r.exc # "none"
           /\ s_exc' = r.exc
    /\ s_pc' = "raised"
    /\ UNCHANGED <<tree, s_idx, all_uuid_infos, matchVars, batchVars>>

\* `return all_uuid_infos`
ScanReturn ==
    /\ s_pc = "walk"
    /\ s_idx = Len(tree)
    /\ s_pc' = "returned"
    /\ UNCHANGED <<tree, s_idx, all_uuid_infos, s_exc, matchVars, batchVars>>

ScanNext == SkipFile \/ ScanFile \/ ScanFileRaise \/ ScanReturn

ScanSpec == ScanInit /\ [][ScanNext]_vars

\* the .java files of t that can be read
ReadableSources(t) ==
    SelectSeq(t, LAMBDA f : EndsWith(f.path, DotJava) /\ f.readable)

RECURSIVE RecordsOf(_)
RecordsOf(fs) ==
    IF fs = <<>> THEN <<>>
    ELSE MatchLines(Head(fs).lines, Head(fs).path, <<>>).infos \o RecordsOf(Tail(fs))

\* C4: the scan of a tree holding a source file that cannot be read still
\* returns, with the records of every readable source file (stated for
\* trees none of whose readable lines raises).
C4_ReadFailureResilience ==
    (/\ s_pc \in {"returned", "raised"}
     /\ \E i \in 1..Len(tree) :
           EndsWith(tree[i].path, DotJava) /\ ~tree[i].readable
     /\ RecordsOf(ReadableSources(tree)) # <<>>
     /\ \A i \in 1..Len(tree) : \A k \in 1..Len(tree[i].lines) :
           MatchLine(tree[i].lines[k], tree[i].path).exc = "none")
    => /\ s_pc = "returned"
       /\ all_uuid_infos = RecordsOf(ReadableSources(tree))

(***************************************************************************)
(* Paths (os.path), on names relative to apks_directory                    *)
(***************************************************************************)
DotApk == <<".", "a", "p", "k">>

\* the index of the last "." of n, 0 when there is none (str.rfind)
RECURSIVE RFindDot(_, _)
RFindDot(n, i) ==
    IF i = 0 THEN 0 ELSE IF n[i] = "." THEN i ELSE RFindDot(n, i - 1)

\* os.path.splitext(n)[0] for a base name: the text before the last dot,
\* unless only dots precede that dot (leading dots are part of the root)
splitext_root(n) ==
    LET d == RFindDot(n, Len(n))
    IN  IF d > 0 /\ \E k \in 1..(d - 1) : n[k] # "."
        THEN SubSeq(n, 1, d - 1)
        ELSE n

\* decompile_apk: the output directory, beside the package; <<>> is
\* os.path.join(apk_dir, ""), apks_directory itself
output_dir(n) ==
    IF EndsWith(n, DotApk) THEN SubSeq(n, 1, Len(n) - 4) ELSE n

\* Analyzer.match_uuids: the name of the subdirectory that is walked
SourcesDir == <<"s", "o", "u", "r", "c", "e", "s">>

\* a directory as the sequence of names from apks_directory down to it
output_path(n) == IF output_dir(n) = <<>> THEN <<>> ELSE <<output_dir(n)>>

\* os.path.join(base_path, "sources"), the root of os.walk
sources_path(n) == output_path(n) \o <<SourcesDir>>

\* directory b is a or lies below a
Below(a, b) == Len(a) <= Len(b) /\ SubSeq(b, 1, Len(a)) = a

\* extract_uuids_from_apk: app_name
app_name(n) == splitext_root(n)

\* main: `if f.endswith('.apk')`
is_apk(f) == EndsWith(f, DotApk)

(***************************************************************************)
(* Dicts: functions; <<>> is {}                                            *)
(***************************************************************************)
Dict1(k, v) == [x \in {k} |-> v]

\* dict.update
Update(d, e) ==
    [x \in (DOMAIN d) \cup (DOMAIN e) |-> IF x \in DOMAIN e THEN e[x] ELSE d[x]]

(***************************************************************************)
(* The environment of one batch run                                        *)
(***************************************************************************)
EntryNames == { <<"a">> \o DotApk, DotApk, DotApk \o DotApk, <<"a">>,
                SourcesDir \o DotApk }

EntryKinds == {"file", "dir", "missing"}

JadxKinds == {"missing", "dir", "noexec", "exec"}

\* os.path.exists / os.path.isfile / os.access(.., os.X_OK) on a kind
exists(k) == k # "missing"
isfile(k) == k \in {"file", "noexec", "exec"}
executable(k) == k \in {"exec", "dir"}

\* ThreadPoolExecutor(): min(32, (os.cpu_count() or 1) + 4) workers
default_max_workers(cpus) == IF cpus + 4 < 32 THEN cpus + 4 ELSE 32

\* the caps of the capped-pool configuration
PoolCaps == 1..MaxWorkers

\* what the scan of package n's decompiled tree finds: one record, which
\* tells the packages apart
FoundIn(n) == <<UUIDInfo(Uuid1, n, <<"A">> \o DotJava)>>

\* the directories of a run; an entry main does not submit is a regular file
Directories ==
    { d \in UNION { [S -> EntryKinds] :
                      S \in { T \in SUBSET EntryNames : Cardinality(T) <= MaxEntries } } :
        \A n \in DOMAIN d : ~EndsWith(n, DotApk) => d[n] = "file" }

Init ==
    /\ entries \in Directories
    /\ jadx \in JadxKinds
    /\ mode \in {"json", "persist"}
    /\ max_workers \in (IF mode = "json" THEN {default_max_workers(1)} ELSE PoolCaps)
    /\ main_pc = "list"
    /\ apk_files = {}
    /\ task = <<>>
    /\ err = <<>>
    /\ result = <<>>
    /\ invoked = {}
    /\ dirs = {}
    /\ rows = {}
    /\ collected = {}
    /\ global_uuid_info = <<>>
    /\ output_json = <<>>
    /\ writes = 0
    /\ MatchIdle
    /\ ScanIdle

(***************************************************************************)
(* main                                                                    *)
(***************************************************************************)
\* os.listdir, the filter, and executor.submit for every package
ListAndSubmit ==
    /\ main_pc = "list"
    /\ apk_files' = { f \in DOMAIN entries : is_apk(f) }
    /\ task' = [p \in apk_files' |-> "queued"]
    /\ err' = [p \in apk_files' |-> "none"]
    /\ result' = [p \in apk_files' |-> <<>>]
    /\ main_pc' = "pool"
    /\ UNCHANGED <<envVars, invoked, dirs, rows, collected, global_uuid_info,
                   output_json, writes, matchVars, scanVars>>

MidFlight == { p \in apk_files : task[p] \notin {"queued", "done"} }

\* a variant of the pool that starts every submitted task at once
worker_free_always == TRUE

\* the pool runs a queued task only on one of its max_workers threads
worker_free == Cardinality(MidFlight) < max_workers

StartTask(p) ==
    /\ main_pc = "pool"
    /\ task[p] = "queued"
    /\ worker_free
    /\ task' = [task EXCEPT ![p] = "init"]
    /\ UNCHANGED <<envVars, err, result, invoked, dirs, rows, mainVars,
                   matchVars, scanVars>>

\* the `except Exception` of extract_uuids_from_apk: print and return {}
Caught(p, e) ==
    /\ err' = [err EXCEPT ![p] = e]
    /\ result' = [result EXCEPT ![p] = <<>>]

\* a variant of the constructor that does not look at apk_path
apk_unchecked(k) == TRUE

\* Analyzer.__init__: the two conditions on apk_path
apk_exists(k) == exists(k)
apk_isfile(k) == isfile(k)

\* Analyzer.__init__ raising
AnalyzerRaise(p) ==
    /\ task[p] = "init"
    /\ \/ /\ ~exists(jadx)
          /\ Caught(p, "jadx_path does not exist")
       \/ /\ exists(jadx)
          /\ ~apk_exists(entries[p])
          /\ Caught(p, "apk_path does not exist")
       \/ /\ exists(jadx) /\ apk_exists(entries[p])
          /\ ~isfile(jadx)
          /\ Caught(p, "jadx_path is not a file")
       \/ /\ exists(jadx) /\ apk_exists(entries[p]) /\ isfile(jadx)
          /\ ~apk_isfile(entries[p])
          /\ Caught(p, "apk_path is not a file")
       \/ /\ exists(jadx) /\ apk_exists(entries[p]) /\ isfile(jadx)
          /\ apk_isfile(entries[p])
          /\ ~executable(jadx)
          /\ Caught(p, "jadx_path is not executable")
    /\ task' = [task EXCEPT ![p] = "done"]
    /\ UNCHANGED <<envVars, invoked, dirs, rows, mainVars, matchVars, scanVars>>

\* Analyzer.__init__ returning
AnalyzerOk(p) ==
    /\ task[p] = "init"
    /\ exists(jadx) /\ apk_exists(entries[p])
    /\ isfile(jadx) /\ apk_isfile(entries[p])
    /\ executable(jadx)
    /\ task' = [task EXCEPT ![p] = "decompile"]
    /\ UNCHANGED <<envVars, err, result, invoked, dirs, rows, mainVars,
                   matchVars, scanVars>>

\* no directory can be made where a regular file is
can_create(d) == ~(d \in DOMAIN entries /\ entries[d] = "file")

\* decompile_apk: subprocess.run(..., check=True), exit status 0
DecompileOk(p) ==
    /\ task[p] = "decompile"
    /\ can_create(output_dir(p))
    /\ invoked' = invoked \cup {p}
    /\ dirs' = dirs \cup {output_dir(p)}
    /\ task' = [task EXCEPT ![p] = "scan"]
    /\ UNCHANGED <<envVars, err, result, rows, mainVars, matchVars, scanVars>>

\* decompile_apk: a non-zero exit status raises CalledProcessError
DecompileFail(p) ==
    /\ task[p] = "decompile"
    /\ invoked' = invoked \cup {p}
    /\ Caught(p, "CalledProcessError")
    /\ task' = [task EXCEPT ![p] = "done"]
    /\ UNCHANGED <<envVars, dirs, rows, mainVars, matchVars, scanVars>>

\* a variant of the cleanup discipline that cleans up only after a success
after_extraction_no_finally(ok) == IF ok THEN "persist" ELSE "done"

\* persistence mode: where a task goes after the scan; the directory is
\* deleted on every path
after_extraction(ok) == IF ok THEN "persist" ELSE "cleanup"

\* the scan returning: batch JSON mode returns {app_name: [...]}
ScanOk(p) ==
    /\ task[p] = "scan"
    /\ \/ /\ mode = "json"
          /\ result' = [result EXCEPT ![p] = Dict1(app_name(p), FoundIn(p))]
          /\ task' = [task EXCEPT ![p] = "done"]
       \/ /\ mode = "persist"
          /\ result' = result
          /\ task' = [task EXCEPT ![p] = after_extraction(TRUE)]
    /\ UNCHANGED <<envVars, err, invoked, dirs, rows, mainVars, matchVars, scanVars>>

\* the scan raising (a source file that cannot be read, a line without a
\* token before "=")
ScanRaise(p) ==
    /\ task[p] = "scan"
    /\ \E e \in {"UnicodeDecodeError", "IndexError"} : Caught(p, e)
    /\ \/ /\ mode = "json"
          /\ task' = [task EXCEPT ![p] = "done"]
       \/ /\ mode = "persist"
          /\ task' = [task EXCEPT ![p] = after_extraction(FALSE)]
    /\ UNCHANGED <<envVars, invoked, dirs, rows, mainVars, matchVars, scanVars>>

\* persistence mode: one row per record, inserted or the store raising
Persist(p) ==
    /\ task[p] = "persist"
    /\ \/ /\ rows' = rows \cup {app_name(p)}
          /\ UNCHANGED <<err, result>>
       \/ /\ rows' = rows
          /\ Caught(p, "RowStoreError")
    /\ task' = [task EXCEPT ![p] = "cleanup"]
    /\ UNCHANGED <<envVars, invoked, dirs, mainVars, matchVars, scanVars>>

\* persistence mode: the recursive delete of decompiled_root
Cleanup(p) ==
    /\ task[p] = "cleanup"
    /\ dirs' = { d \in dirs : ~Below(output_path(p), IF d = <<>> THEN <<>> ELSE <<d>>) }
    /\ task' = [task EXCEPT ![p] = "done"]
    /\ UNCHANGED <<envVars, err, result, invoked, rows, mainVars, matchVars, scanVars>>

\* the body of `for future in as_completed(futures)`
Collect(p) ==
    /\ main_pc = "pool"
    /\ task[p] = "done"
    /\ p \notin collected
    /\ collected' = collected \cup {p}
    /\ global_uuid_info' = Update(global_uuid_info, result[p])
    /\ UNCHANGED <<envVars, taskVars, main_pc, apk_files, output_json, writes,
                   matchVars, scanVars>>

\* a variant of the wait that ends with the first completed future
first_collected == collected # {}

\* as_completed is exhausted and the executor's `with` block has joined
all_collected == collected = apk_files

\* json.dump(global_uuid_info, f)
WriteJson ==
    /\ main_pc = "pool"
    /\ mode = "json"
    /\ all_collected
    /\ output_json' = global_uuid_info
    /\ writes' = writes + 1
    /\ main_pc' = "written"
    /\ UNCHANGED <<envVars, taskVars, apk_files, collected, global_uuid_info,
                   matchVars, scanVars>>

\* persistence mode: the run ends when every task has
Finish ==
    /\ main_pc = "pool"
    /\ mode = "persist"
    /\ all_collected
    /\ main_pc' = "done"
    /\ UNCHANGED <<envVars, taskVars, apk_files, collected, global_uuid_info,
                   output_json, writes, matchVars, scanVars>>

Next ==
    \/ ListAndSubmit
    \/ \E p \in apk_files : StartTask(p)
    \/ \E p \in apk_files : AnalyzerRaise(p)
    \/ \E p \in apk_files : AnalyzerOk(p)
    \/ \E p \in apk_files : DecompileOk(p)
    \/ \E p \in apk_files : DecompileFail(p)
    \/ \E p \in apk_files : ScanOk(p)
    \/ \E p \in apk_files : ScanRaise(p)
    \/ \E p \in apk_files : Persist(p)
    \/ \E p \in apk_files : Cleanup(p)
    \/ \E p \in apk_files : Collect(p)
    \/ WriteJson
    \/ Finish

Spec == Init /\ [][Next]_vars

(***************************************************************************)
(* What the claims say about a line, stated on the text itself             *)
(***************************************************************************)
\* t is 36 characters, hyphens at 9, 14, 19 and 24, hexadecimal elsewhere
UuidShaped(t) ==
    /\ Len(t) = 36
    /\ \A k \in 1..36 :
          IF k \in {9, 14, 19, 24} THEN t[k] = "-" ELSE t[k] \in Hex

TextAt(l, i) == SubSeq(l, i, i + 35)

\* where the UUID-shaped substrings of l start
ShapedStarts(l) ==
    { i \in 1..Len(l) : i + 35 <= Len(l) /\ UuidShaped(TextAt(l, i)) }

NonZeroStarts(l) == { i \in ShapedStarts(l) : TextAt(l, i) # ZeroUuid }

EqPositions(l) == { i \in 1..Len(l) : l[i] = "=" }

Min(S) == CHOOSE x \in S : \A y \in S : x <= y
Max(S) == CHOOSE x \in S : \A y \in S : x >= y

\* the positions before the first "=" that hold a non-blank character
InkBeforeEq(l) ==
    { k \in 1..(Min(EqPositions(l)) - 1) : l[k] \notin Whitespace }

\* the last whitespace-delimited token of the text before the first "="
LastTokenBeforeEq(l) ==
    LET b == Max(InkBeforeEq(l))
        a == Min({ k \in 1..b : \A j \in k..b : l[j] \notin Whitespace })
    IN  SubSeq(l, a, b)

\* C5: a line with a non-zero UUID-shaped substring and an "=" with nothing
\* but blanks before the first "=" yields no record and does not raise.
C5_FailClosed ==
    (/\ m_pc = "matched"
     /\ NonZeroStarts(line) # {}
     /\ EqPositions(line) # {}
     /\ InkBeforeEq(line) = {})
    => (uuid_infos = <<>> /\ m_exc = "none")

\* C9: no record carries the all-zero UUID, and a line whose UUID-shaped
\* substrings are all the all-zero UUID yields no record.
C9_NoZeroUuid ==
    m_pc = "matched" =>
        /\ \A k \in 1..Len(uuid_infos) : uuid_infos[k].uuid # ZeroUuid
        /\ (ShapedStarts(line) # {} /\ NonZeroStarts(line) = {})
             => (uuid_infos = <<>> /\ m_exc = "none")

\* a matched line holding the all-zero UUID in an assignment, and no other
C9_Witness ==
    /\ m_pc = "matched"
    /\ ShapedStarts(line) # {}
    /\ NonZeroStarts(line) = {}
    /\ EqPositions(line) # {}
    /\ InkBeforeEq(line) # {}

\* C10 as written, on the lines that have a token before the first "=" (the
\* lines without one are C5's): every line with a UUID-shaped substring and
\* an "=" before it yields exactly one record, with the first UUID-shaped
\* substring and the last token before the first "="; no line yields more
\* than one record.
C10_Original ==
    m_pc = "matched" =>
        /\ Len(uuid_infos) <= 1
        /\ (/\ \E i \in ShapedStarts(line) : \E e \in EqPositions(line) : e < i
            /\ InkBeforeEq(line) # {})
             => /\ m_exc = "none"
                /\ Len(uuid_infos) = 1
                /\ uuid_infos[1].uuid = TextAt(line, Min(ShapedStarts(line)))
                /\ uuid_infos[1].variable = LastTokenBeforeEq(line)

\* C10 amended: every line with a UUID-shaped substring other than the
\* all-zero UUID and an "=" before it yields exactly one record, with the
\* first UUID-shaped substring that is not the all-zero UUID and the last
\* token before the first "=", when there is such a token; when there is
\* none the matcher raises IndexError and yields no record.  No line yields
\* more than one record.
C10_Matcher ==
    m_pc = "matched" =>
        /\ Len(uuid_infos) <= 1
        /\ (\E i \in NonZeroStarts(line) : \E e \in EqPositions(line) : e < i)
             => IF InkBeforeEq(line) # {}
                THEN /\ m_exc = "none"
                     /\ Len(uuid_infos) = 1
                     /\ uuid_infos[1].uuid = TextAt(line, Min(NonZeroStarts(line)))
                     /\ uuid_infos[1].variable = LastTokenBeforeEq(line)
                ELSE uuid_infos = <<>> /\ m_exc = "IndexError"

\* a record whose UUID follows an all-zero UUID on the same line, with two
\* UUID-shaped substrings after it left unrecorded or a several-token
\* left-hand side
C10_Witness ==
    /\ m_pc = "matched"
    /\ Len(uuid_infos) = 1
    /\ Min(ShapedStarts(line)) < Min(NonZeroStarts(line))
    /\ uuid_infos[1].uuid = TextAt(line, Min(NonZeroStarts(line)))
    /\ uuid_infos[1].variable = LastTokenBeforeEq(line)

(***************************************************************************)
(* What the claims say about a batch run                                   *)
(***************************************************************************)
PreconditionErrors ==
    { "jadx_path does not exist", "apk_path does not exist",
      "jadx_path is not a file", "apk_path is not a file",
      "jadx_path is not executable" }

Succeeded(p) == task[p] = "done" /\ err[p] = "none"
Failed(p) == task[p] = "done" /\ err[p] # "none"

\* the document maps p's display name to p's records
InOutput(p) ==
    /\ app_name(p) \in DOMAIN output_json
    /\ output_json[app_name(p)] = FoundIn(p)

\* C1: in batch JSON mode, when exactly one package fails (a precondition
\* error or a decompiler failure), the document written holds the results of
\* the other packages under their display names, and the display name of the
\* failing package is not a key of it.
C1_PartialFailureIsolation ==
    (/\ main_pc = "written"
     /\ Cardinality({ p \in apk_files : Failed(p) }) = 1
     /\ \A p \in apk_files :
          Failed(p) => err[p] \in PreconditionErrors \cup {"CalledProcessError"})
    => \A p \in apk_files :
         IF Failed(p) THEN app_name(p) \notin DOMAIN output_json ELSE InOutput(p)

\* C2: under the capped-pool configuration the number of package analyses
\* mid-flight never exceeds the cap.
C2_ConcurrencyBound ==
    mode = "persist" => Cardinality(MidFlight) <= max_workers

\* as many analyses mid-flight as the cap allows, and one more waiting
C2_Witness ==
    /\ mode = "persist"
    /\ Cardinality(MidFlight) = max_workers
    /\ \E p \in apk_files : task[p] = "queued"
    /\ \E p \in apk_files : task[p] = "scan"

\* C3: in batch-with-cleanup operation no task has finished while the
\* decompiled directory it created still exists, whether the scan returned,
\* the scan raised or the row store raised.
C3_GuaranteedCleanup ==
    mode = "persist" =>
        \A p \in apk_files :
            (task[p] = "done" /\ p \in invoked /\ err[p] # "CalledProcessError")
            => output_dir(p) \notin dirs

\* a task whose scan raised has finished and its directory is gone
C3_Witness ==
    /\ mode = "persist"
    /\ \E p \in apk_files :
         /\ task[p] = "done"
         /\ err[p] \in {"UnicodeDecodeError", "IndexError"}
         /\ output_dir(p) \notin dirs
    /\ \E p \in apk_files :
         /\ task[p] = "done"
         /\ err[p] = "RowStoreError"
         /\ output_dir(p) \notin dirs

\* the tool or the package fails a precondition of the analyzer
BadPrecondition(p) == jadx # "exec" \/ entries[p] # "file"

\* C6: a package whose tool or package path fails a precondition never has
\* the decompiler run for it: its task ends at the construction of the
\* analyzer with that error and an empty result, and the packages that
\* succeeded are in the document all the same.
C6_PreconditionFirst ==
    /\ \A p \in apk_files :
         BadPrecondition(p) =>
            /\ p \notin invoked
            /\ task[p] \in {"queued", "init", "done"}
            /\ task[p] = "done"
                 => (err[p] \in PreconditionErrors /\ result[p] = <<>>)
    /\ main_pc = "written" => \A q \in apk_files : Succeeded(q) => InOutput(q)

\* a run written with one package skipped for not being a regular file and
\* another package in the document
C6_Witness ==
    /\ main_pc = "written"
    /\ \E p \in apk_files : err[p] = "apk_path is not a file" /\ p \notin invoked
    /\ \E q \in apk_files : Succeeded(q) /\ InOutput(q)

C8_ExclusiveOwnership ==
    \A p, q \in apk_files :
        p # q =>
            /\ output_dir(p) # output_dir(q)
            /\ (task[p] = "scan" /\ task[q] \in {"decompile", "scan"})
                 => ~Below(sources_path(p), output_path(q))

====
